---- MODULE Spec2Model ----
(***************************************************************************)
(* Model of the taxonomy name-resolution script (src/code.py): the two     *)
(* name normalizers, the match-service client, and the three-stage         *)
(* cascade over the distinct scientific names, up to the fill-in that      *)
(* precedes the merge.                                                     *)
(*                                                                         *)
(* A Python string is a sequence of one-character strings.  Python's None  *)
(* is the string "None" for scalar fields and the one-element sequence     *)
(* <<"None">> where a Python string is expected (no Python string is a     *)
(* sequence holding a four-character element).                             *)
(***************************************************************************)
EXTENDS Integers, Sequences, FiniteSets, TLC

VARIABLES unique_names, all_results, failed_names, pc, i, calls, omits,
          df, df_merged, fn_in, fn_out, fn_pc

vars == <<unique_names, all_results, failed_names, pc, i, calls, omits,
          df, df_merged, fn_in, fn_out, fn_pc>>

cascadeVars == <<unique_names, all_results, failed_names, pc, i, calls, omits,
                 df, df_merged>>
fnVars == <<fn_in, fn_out, fn_pc>>

\* unique_names   the distinct non-empty names of the input column (line 101)
\* all_results    the result map: name -> resolution record (line 115)
\* failed_names   the failure set (lines 126, 145, 186)
\* pc             where the script is: "stage1", "stage2", "stage3",
\*                "stage3_final", "merge", "done", or "KeyError" once a
\*                subscript all_results[name] has raised
\* i              the loop variable of the stage 1 batching (line 120)
\* calls          the requests sent so far, each with its answer
\* omits          whether the service of this run may leave submitted names
\*                out of its answer (FALSE: one item per submitted name)
\* df             the 'Scientific Name' column of the input rows after
\*                astype(str) (line 99): one string per row
\* df_merged      the rows of the merged frame (line 217), <<>> before it
\* fn_in, fn_out, fn_pc   a string, the results of the normalizers applied
\*                to it, and which of them have been applied

-----------------------------------------------------------------------------
(* Bounds and program constants.                                           *)

\* Longest list of distinct input names a run is given.
MaxNames == 3

\* Longest string the normalizers are applied to in SpecFn.
MaxLen == 5

\* The most rows of the input column.
MaxRows == 3

\* src/code.py:12 sets 200; the model runs the same batching arithmetic with
\* a batch of 2 so that runs of MaxNames names have a full and a partial batch.
BATCH_SIZE == 2

None == "None"
NoneStr == <<"None">>

-----------------------------------------------------------------------------
(* Characters and strings.                                                 *)

Upper == {"A", "B", "C", "D", "E", "L", "M", "N"}
Lower == {"a", "b", "c", "d", "e", "h", "l", "m", "n", "o"}
Whitespace == {" ", "\t"}

Min(a, b) == IF a < b THEN a ELSE b

\* Python truthiness of an Optional[str].
Truthy(s) == s # NoneStr /\ s # <<>>

\* str.strip(): drop leading and trailing whitespace.
RECURSIVE LStrip(_)
LStrip(s) ==
    IF s # <<>> /\ Head(s) \in Whitespace THEN LStrip(Tail(s)) ELSE s

RECURSIVE RStrip(_)
RStrip(s) ==
    IF s # <<>> /\ s[Len(s)] \in Whitespace
    THEN RStrip(SubSeq(s, 1, Len(s) - 1))
    ELSE s

strip(s) == RStrip(LStrip(s))

\* The alternation of the pattern of line 20, matched against a whole token:
\* [A-Z][a-z]*\.?  |  Moench  |  L\.
AuthorityToken(t) ==
    \/ /\ Len(t) >= 1
       /\ t[1] \in Upper
       /\ \E k \in 1..Len(t) :
            /\ \A j \in 2..k : t[j] \in Lower
            /\ \/ k = Len(t)
               \/ k + 1 = Len(t) /\ t[k + 1] = "."
    \/ t = <<"M", "o", "e", "n", "c", "h">>
    \/ t = <<"L", ".">>

\* re.sub(r'\s+(...)$', '', s): the leftmost match is the one that starts at
\* the earliest whitespace position p such that s[p..q-1] is whitespace and
\* s[q..] is an authority token; it extends to the end of s, so it is the
\* only match and the result is s[..p-1].  Without a match s is returned.
SubAuthority(s) ==
    LET starts == {p \in 1..Len(s) :
                     \E q \in (p + 1)..Len(s) :
                        /\ \A j \in p..(q - 1) : s[j] \in Whitespace
                        /\ AuthorityToken(SubSeq(s, q, Len(s)))}
    IN  IF starts = {} THEN s
        ELSE LET p == CHOOSE m \in starts : \A o \in starts : m <= o
             IN  SubSeq(s, 1, p - 1)

clean_scientific_name(name) ==
    IF name = NoneStr THEN NoneStr
    ELSE strip(SubAuthority(strip(name)))

\* str.split(' ', 1)[0]: the characters before the first space.
RECURSIVE BeforeFirstSpace(_)
BeforeFirstSpace(s) ==
    IF s = <<>> \/ Head(s) = " " THEN <<>>
    ELSE <<Head(s)>> \o BeforeFirstSpace(Tail(s))

extract_genus(name) ==
    IF name = NoneStr \/ ~(\E k \in 1..Len(name) : name[k] = " ")
    THEN NoneStr
    ELSE BeforeFirstSpace(name)

-----------------------------------------------------------------------------
(* The match service (query_ott_tnrs) and what it may answer.              *)

MatchLevels == {"Species - Original", "Species - Cleaned", "Genus",
                "No Match Initial", "No Match Final - Genus Failed",
                "No Match Final", "Processing Error"}

\* The top candidates the service may return for a name.  A field holding
\* None stands for a key the taxon does not carry.
TopCandidates ==
    { [is_approximate_match |-> FALSE, is_synonym |-> FALSE,
       taxon |-> [unique_name |-> "Oryza sativa",
                  synonyms |-> <<"Oryza glutinosa", "Oryza aristata">>,
                  ott_id |-> "ott1", rank |-> "species"]],
      [is_approximate_match |-> FALSE, is_synonym |-> TRUE,
       taxon |-> [unique_name |-> "Poaceae", synonyms |-> <<"Gramineae">>,
                  ott_id |-> "ott2", rank |-> "Family"]],
      [is_approximate_match |-> TRUE, is_synonym |-> FALSE,
       taxon |-> [unique_name |-> "Oryza", synonyms |-> <<>>,
                  ott_id |-> None, rank |-> "genus"]] }

\* item['matches']: the empty list or a list whose first element is a top
\* candidate (the script reads matches[0] only).
MatchLists == {<<>>} \cup {<<c>> : c \in TopCandidates}

\* The 'results' lists the service may answer a request with: one item per
\* submitted name, in request order; when omit is TRUE items may be missing.
RECURSIVE ResultLists(_, _)
ResultLists(names_list, omit) ==
    IF names_list = <<>> THEN {<<>>}
    ELSE LET rest == ResultLists(Tail(names_list), omit)
         IN  {<<[name |-> Head(names_list), matches |-> m]>> \o r :
                 m \in MatchLists, r \in rest}
             \cup (IF omit THEN rest ELSE {})

NoneResponse == [kind |-> "None"]

\* query_ott_tnrs: None for an empty list (no request is sent), otherwise
\* the parsed body, or None after a transport, status or decoding error.
query_ott_tnrs(names_list, omit) ==
    IF names_list = <<>> THEN {NoneResponse}
    ELSE {NoneResponse} \cup
         {[kind |-> "json", results |-> r] : r \in ResultLists(names_list, omit)}

\* The request log: a request goes out only for a non-empty list (line 31).
LogCall(log, stage, names_list, response) ==
    IF names_list = <<>> THEN log
    ELSE Append(log, [stage |-> stage, names |-> names_list, response |-> response])

-----------------------------------------------------------------------------
(* process_tnrs_results.                                                   *)

Put(f, k, v) == [x \in (DOMAIN f) \cup {k} |-> IF x = k THEN v ELSE f[x]]

NoMap == <<>>

\* "; ".join(synonyms)
RECURSIVE Join(_)
Join(list) ==
    IF list = <<>> THEN ""
    ELSE IF Len(list) = 1 THEN list[1]
    ELSE list[1] \o "; " \o Join(Tail(list))

\* The record built from a match (lines 66-75 and 174-179).
MatchRecord(match, query, match_level) ==
    [PrimaryMatchedName |-> match.taxon.unique_name,
     Synonyms |-> Join(match.taxon.synonyms),
     OTTID |-> match.taxon.ott_id,
     Rank |-> match.taxon.rank,
     MatchQuery |-> query,
     MatchLevel |-> match_level,
     ApproximateMatch |-> match.is_approximate_match,
     IsSynonymInput |-> match.is_synonym]

\* The placeholder of lines 77-81 and 200-203.
EmptyRecord(query, match_level) ==
    [PrimaryMatchedName |-> None, Synonyms |-> None, OTTID |-> None,
     Rank |-> None, MatchQuery |-> query, MatchLevel |-> match_level,
     ApproximateMatch |-> FALSE, IsSynonymInput |-> FALSE]

\* Line 60 with the query map ignored.
TargetName_unmapped(original_query_name, query_map) == original_query_name

\* Line 60.
TargetName(original_query_name, query_map) ==
    IF original_query_name \in DOMAIN query_map
    THEN query_map[original_query_name]
    ELSE original_query_name

\* Lines 59-81 for one item, with the target name stored as 'Match Query'.
ProcessItem_target(results_dict, item, match_level, query_map) ==
    LET original_query_name == item.name
        target_name == TargetName(original_query_name, query_map)
    IN  IF target_name \notin DOMAIN results_dict
           \/ results_dict[target_name].OTTID = None
        THEN IF item.matches # <<>>
             THEN Put(results_dict, target_name,
                      MatchRecord(item.matches[1], target_name, match_level))
             ELSE IF match_level = "Species - Original"
                     /\ target_name \notin DOMAIN results_dict
             THEN Put(results_dict, target_name,
                      EmptyRecord(target_name, "No Match Initial"))
             ELSE results_dict
        ELSE results_dict

\* Lines 59-81 for one item.
ProcessItem(results_dict, item, match_level, query_map) ==
    LET original_query_name == item.name
        target_name == TargetName(original_query_name, query_map)
    IN  IF target_name \notin DOMAIN results_dict
           \/ results_dict[target_name].OTTID = None
        THEN IF item.matches # <<>>
             THEN Put(results_dict, target_name,
                      MatchRecord(item.matches[1], original_query_name, match_level))
             ELSE IF match_level = "Species - Original"
                     /\ target_name \notin DOMAIN results_dict
             THEN Put(results_dict, target_name,
                      EmptyRecord(original_query_name, "No Match Initial"))
             ELSE results_dict
        ELSE results_dict

RECURSIVE ProcessItems(_, _, _, _)
ProcessItems(results_dict, items, match_level, query_map) ==
    IF items = <<>> THEN results_dict
    ELSE ProcessItems(ProcessItem(results_dict, Head(items), match_level, query_map),
                      Tail(items), match_level, query_map)

process_tnrs_results(api_response, results_dict, match_level, query_map) ==
    IF api_response.kind # "json" THEN results_dict
    ELSE ProcessItems(results_dict, api_response.results, match_level, query_map)

-----------------------------------------------------------------------------
(* The cascade (lines 115-205).                                            *)

Range(seq) == {seq[k] : k \in 1..Len(seq)}

\* A subscript all_results[name] raises KeyError when a name has no record.
HasAll(names, results_dict) == \A k \in 1..Len(names) : names[k] \in DOMAIN results_dict

\* Line 121 with a slice one name longer than the step of the loop.
Batch_overlap(names, start) ==
    SubSeq(names, start + 1, Min(start + BATCH_SIZE + 1, Len(names)))

\* Line 121: unique_names[i:i+BATCH_SIZE], i counted from 0.
Batch(names, start) == SubSeq(names, start + 1, Min(start + BATCH_SIZE, Len(names)))

\* Line 126.
FailedAfterStage1(names, results_dict) ==
    SelectSeq(names, LAMBDA n : n \notin DOMAIN results_dict
                                  \/ results_dict[n].OTTID = None)

\* Lines 145 and 186 with the filter on the taxon id dropped.
StillFailed_unfiltered(names, results_dict) == names

\* Lines 145 and 186 (evaluated only when every name has a record).
StillFailed(names, results_dict) ==
    SelectSeq(names, LAMBDA n : results_dict[n].OTTID = None)

\* Line 136 without the comparison with the name.
NeedsCleanedQuery_nodiff(name) == Truthy(clean_scientific_name(name))

\* Line 136.
NeedsCleanedQuery(name) ==
    LET cleaned == clean_scientific_name(name)
    IN  Truthy(cleaned) /\ cleaned # name

\* Lines 132-138: the dictionary keeps the last name assigned to a key.
RECURSIVE BuildCleanedMap(_, _)
BuildCleanedMap(names, map) ==
    IF names = <<>> THEN map
    ELSE LET name == Head(names)
             cleaned == clean_scientific_name(name)
         IN  BuildCleanedMap(Tail(names),
                             IF NeedsCleanedQuery(name) THEN Put(map, cleaned, name)
                             ELSE map)

cleaned_names_map(names) == BuildCleanedMap(names, NoMap)

RECURSIVE BuildCleanedList(_)
BuildCleanedList(names) ==
    IF names = <<>> THEN <<>>
    ELSE (IF NeedsCleanedQuery(Head(names))
          THEN <<clean_scientific_name(Head(names))>> ELSE <<>>)
         \o BuildCleanedList(Tail(names))

names_to_query_cleaned(names) == BuildCleanedList(names)

\* list(set(x)): the distinct elements of x, in an order the run does not fix.
ListOfSet(x) ==
    LET S == Range(x)
    IN  {q \in [1..Cardinality(S) -> S] : \A a, b \in 1..Cardinality(S) : q[a] = q[b] => a = b}

\* Lines 151-160: the distinct genera in order of first appearance, and for
\* each genus the names that have it, in order.
RECURSIVE BuildGenera(_, _)
BuildGenera(names, acc) ==
    IF names = <<>> THEN acc
    ELSE LET genus == extract_genus(Head(names))
         IN  BuildGenera(Tail(names),
                         IF Truthy(genus) /\ genus \notin Range(acc)
                         THEN Append(acc, genus) ELSE acc)

genera_to_query(names) == BuildGenera(names, <<>>)

\* Lines 158-160 keeping only the last name of a genus (the way line 137
\* keeps the last name of a cleaned form).
genus_map_last(names) ==
    [g \in Range(genera_to_query(names)) |->
        LET sharing == SelectSeq(names, LAMBDA n : extract_genus(n) = g)
        IN  <<sharing[Len(sharing)]>>]

genus_map(names) ==
    [g \in Range(genera_to_query(names)) |->
        SelectSeq(names, LAMBDA n : extract_genus(n) = g)]

\* str.lower() on the rank strings the service sends.
lower(rank) ==
    CASE rank = "Family" -> "family"
      [] rank = "Genus" -> "genus"
      [] rank = "Species" -> "species"
      [] OTHER -> rank

GenusStageRanks == {"genus", "family", "order", "class", "phylum", "kingdom"}

\* Line 173 with the rank test dropped.
RankAccepted_any(taxon) == TRUE

\* Line 173: taxon.get('rank', '').lower() in [...]
RankAccepted(taxon) ==
    (IF taxon.rank = None THEN "" ELSE lower(taxon.rank)) \in GenusStageRanks

\* Lines 169-181 for one target name of one item.
GenusUpdate(results_dict, item, target_name) ==
    IF results_dict[target_name].OTTID = None
    THEN IF item.matches # <<>>
         THEN IF RankAccepted(item.matches[1].taxon)
              THEN [results_dict EXCEPT ![target_name] =
                        MatchRecord(item.matches[1], item.name, "Genus")]
              ELSE results_dict
         ELSE [results_dict EXCEPT ![target_name].MatchLevel =
                   "No Match Final - Genus Failed"]
    ELSE results_dict

RECURSIVE GenusTargets(_, _, _)
GenusTargets(results_dict, item, targets) ==
    IF targets = <<>> THEN results_dict
    ELSE GenusTargets(GenusUpdate(results_dict, item, Head(targets)), item, Tail(targets))

\* Lines 164-181.
RECURSIVE GenusItems(_, _, _)
GenusItems(results_dict, items, gmap) ==
    IF items = <<>> THEN results_dict
    ELSE GenusItems(IF Head(items).name \in DOMAIN gmap
                    THEN GenusTargets(results_dict, Head(items), gmap[Head(items).name])
                    ELSE results_dict,
                    Tail(items), gmap)

\* Lines 163-181.
process_genus_results(api_response, results_dict, gmap) ==
    IF api_response.kind # "json" THEN results_dict
    ELSE GenusItems(results_dict, api_response.results, gmap)

\* The names whose record line 169 subscripts.
GenusTouched(api_response, gmap) ==
    IF api_response.kind # "json" THEN {}
    ELSE UNION {Range(gmap[api_response.results[k].name]) :
                  k \in {j \in 1..Len(api_response.results) :
                           api_response.results[j].name \in DOMAIN gmap}}

\* Lines 187-189 left out: the record keeps its level.
FinaliseLevel_keep(record) == record

\* Lines 187-189.
FinaliseLevel(record) ==
    IF record.MatchLevel \notin {"Genus", "No Match Final - Genus Failed"}
    THEN [record EXCEPT !.MatchLevel = "No Match Final"]
    ELSE record

FinaliseStage3(names, results_dict) ==
    [n \in DOMAIN results_dict |->
        IF n \in Range(names) THEN FinaliseLevel(results_dict[n]) ELSE results_dict[n]]

\* Lines 198-205 for one name.
FillIn(results_dict, name) ==
    IF name \notin DOMAIN results_dict
    THEN Put(results_dict, name, EmptyRecord(name, "Processing Error"))
    ELSE IF results_dict[name].OTTID = None
            /\ results_dict[name].MatchLevel = "No Match Initial"
    THEN [results_dict EXCEPT ![name].MatchLevel = "No Match Final"]
    ELSE results_dict

RECURSIVE FillInAll(_, _)
FillInAll(results_dict, names) ==
    IF names = <<>> THEN results_dict
    ELSE FillInAll(FillIn(results_dict, Head(names)), Tail(names))

-----------------------------------------------------------------------------
(* The input column and the merge (lines 99-101 and 207-224).              *)

\* str.lower() on a name.
LowerChar(c) ==
    CASE c = "A" -> "a" [] c = "B" -> "b" [] c = "C" -> "c" [] c = "D" -> "d"
      [] c = "E" -> "e" [] c = "L" -> "l" [] c = "M" -> "m" [] c = "N" -> "n"
      [] OTHER -> c

str_lower(s) == [k \in 1..Len(s) |-> LowerChar(s[k])]

nan == <<"n", "a", "n">>

\* Series.unique(): each value once, in order of first appearance.
RECURSIVE Unique(_, _)
Unique(values, acc) ==
    IF values = <<>> THEN acc
    ELSE Unique(Tail(values),
                IF Head(values) \in Range(acc) THEN acc ELSE Append(acc, Head(values)))

\* Line 101 with the comparison made case-sensitive.
UsableName_exact(name) == name # <<>> /\ name # nan

\* Line 101: if name and name.lower() != 'nan'
UsableName(name) == name # <<>> /\ str_lower(name) # nan

\* Lines 100-101: replace('nan', '') on whole values, dropna() (no string
\* is dropped), unique(), then the filter of line 101.
ExtractUniqueNames(column) ==
    SelectSeq(Unique([k \in 1..Len(column) |->
                         IF column[k] = nan THEN <<>> ELSE column[k]], <<>>),
              UsableName)

\* The annotation columns of a row without a matching record.
NaNRecord ==
    [PrimaryMatchedName |-> "NaN", Synonyms |-> "NaN", OTTID |-> "NaN",
     Rank |-> "NaN", MatchQuery |-> "NaN", MatchLevel |-> "NaN",
     ApproximateMatch |-> "NaN", IsSynonymInput |-> "NaN"]

RECURSIVE SetToSeq(_)
SetToSeq(S) ==
    IF S = {} THEN <<>>
    ELSE LET x == CHOOSE y \in S : TRUE
         IN  <<x>> \o SetToSeq(S \ {x})

\* Lines 207-209: one row per key of the result map.
results_df(results_dict) ==
    LET keys == SetToSeq(DOMAIN results_dict)
    IN  [k \in 1..Len(keys) |->
            [lookup |-> keys[k], fields |-> results_dict[keys[k]]]]

\* The output rows pd.merge gives for one left row under how='inner'.
MergeRow_inner(name, right) ==
    LET matching == SelectSeq(right, LAMBDA r : r.lookup = name)
    IN  [k \in 1..Len(matching) |->
            [name |-> name, annotated |-> TRUE, fields |-> matching[k].fields]]

\* The output rows pd.merge(how='left') gives for one left row: one per
\* right row with the same key, or one row of NaN without any.
MergeRow(name, right) ==
    LET matching == SelectSeq(right, LAMBDA r : r.lookup = name)
    IN  IF matching = <<>>
        THEN <<[name |-> name, annotated |-> FALSE, fields |-> NaNRecord]>>
        ELSE [k \in 1..Len(matching) |->
                 [name |-> name, annotated |-> TRUE, fields |-> matching[k].fields]]

\* Lines 217-224: the left rows in order, each with its matches.
RECURSIVE merge(_, _)
merge(left, right) ==
    IF left = <<>> THEN <<>>
    ELSE MergeRow(Head(left), right) \o merge(Tail(left), right)

-----------------------------------------------------------------------------
(* Inputs.                                                                 *)

\* The scientific names the input column may hold: names that cleaning
\* leaves unchanged, names ending in one or two authority tokens, names that
\* share a cleaned form or a genus, a name of a single token.
NamePool ==
    << <<"A", "a", " ", "b">>,
       <<"A", "a", " ", "b", " ", "C", ".">>,
       <<"A", "a", " ", "b", " ", "D">>,
       <<"B", "b">>,
       <<"B", "b", " ", "c", " ", "D", " ", "E">>,
       <<"C", "c", " ", "d">> >>

\* Lines 100-101: unique() keeps each name once, in order of first
\* appearance.  The runs take up to MaxNames names of the pool: one or two
\* names in either order, more names in the order of the pool.
InputLists ==
    UNION {{[k \in 1..n |-> NamePool[idx[k]]] :
              idx \in {x \in [1..n -> 1..Len(NamePool)] :
                         \/ \A a, b \in 1..n : a < b => x[a] < x[b]
                         \/ n = 2 /\ x[1] > x[2]}} :
             n \in 0..MaxNames}

\* The values a cell of the 'Scientific Name' column may show after
\* astype(str): a name, a name with an authority, a missing value ('nan'),
\* the text 'NaN', the empty string.
RowValues ==
    { <<"B", "b">>,
      <<"A", "a", " ", "b", " ", "C", ".">>,
      nan,
      <<"N", "a", "N">>,
      <<>> }

RowLists == UNION {[1..n -> RowValues] : n \in 0..MaxRows}

\* The characters the normalizers are exercised on.
FnAlphabet == {"A", "b", " ", ".", "\t"}

FnInputs == UNION {[1..n -> FnAlphabet] : n \in 0..MaxLen}

-----------------------------------------------------------------------------
(* The run of the script.                                                  *)

\* Lines 115-117: the result map is empty and the cascade is entered only
\* for a non-empty name list.
InitCascade ==
    /\ unique_names \in InputLists
    /\ df = unique_names
    /\ df_merged = <<>>
    /\ all_results = <<>>
    /\ failed_names = <<>>
    /\ i = 0
    /\ calls = <<>>
    /\ pc = IF unique_names # <<>> THEN "stage1" ELSE "merge"

FnIdle ==
    /\ fn_in = <<>>
    /\ fn_out = <<>>
    /\ fn_pc = "idle"

Init ==
    /\ InitCascade
    /\ omits = FALSE
    /\ FnIdle

\* Lines 120-124: one batch of stage 1.
Stage1Batch ==
    /\ pc = "stage1"
    /\ i < Len(unique_names)
    /\ LET batch == Batch(unique_names, i)
       IN  \E batch_result_data \in query_ott_tnrs(batch, omits) :
              /\ all_results' = process_tnrs_results(batch_result_data, all_results,
                                                     "Species - Original", NoMap)
              /\ calls' = LogCall(calls, 1, batch, batch_result_data)
    /\ i' = i + BATCH_SIZE
    /\ UNCHANGED <<unique_names, failed_names, pc, omits, df, df_merged, fnVars>>

\* Lines 126-130 and 149: the failure set after stage 1.
Stage1Complete ==
    /\ pc = "stage1"
    /\ i >= Len(unique_names)
    /\ failed_names' = FailedAfterStage1(unique_names, all_results)
    /\ pc' = IF failed_names' # <<>> THEN "stage2" ELSE "merge"
    /\ UNCHANGED <<unique_names, all_results, i, calls, omits, df, df_merged, fnVars>>

\* Lines 130-149: stage 2.
Stage2 ==
    /\ pc = "stage2"
    /\ LET qmap == cleaned_names_map(failed_names)
           cleaned_list == names_to_query_cleaned(failed_names)
       IN  \E q \in ListOfSet(cleaned_list) :
           \E cleaned_result_data \in query_ott_tnrs(q, omits) :
              LET updated == IF cleaned_list # <<>>
                             THEN process_tnrs_results(cleaned_result_data, all_results,
                                                       "Species - Cleaned", qmap)
                             ELSE all_results
              IN  /\ all_results' = updated
                  /\ calls' = LogCall(calls, 2, q, cleaned_result_data)
                  /\ IF HasAll(failed_names, updated)
                     THEN /\ failed_names' = StillFailed(failed_names, updated)
                          /\ pc' = IF failed_names' # <<>> THEN "stage3" ELSE "merge"
                     ELSE /\ pc' = "KeyError"
                          /\ UNCHANGED failed_names
    /\ UNCHANGED <<unique_names, i, omits, df, df_merged, fnVars>>

\* Lines 150-184: the genus query of stage 3.
Stage3Query ==
    /\ pc = "stage3"
    /\ LET gmap == genus_map(failed_names)
           genera == genera_to_query(failed_names)
       IN  \E genus_result_data \in query_ott_tnrs(genera, omits) :
              /\ calls' = LogCall(calls, 3, genera, genus_result_data)
              /\ IF GenusTouched(genus_result_data, gmap) \subseteq DOMAIN all_results
                 THEN /\ all_results' = process_genus_results(genus_result_data,
                                                              all_results, gmap)
                      /\ pc' = "stage3_final"
                 ELSE /\ pc' = "KeyError"
                      /\ UNCHANGED all_results
    /\ UNCHANGED <<unique_names, failed_names, i, omits, df, df_merged, fnVars>>

\* Lines 186-190: the finalisation of stage 3.
Stage3Finalise ==
    /\ pc = "stage3_final"
    /\ IF HasAll(failed_names, all_results)
       THEN /\ failed_names' = StillFailed(failed_names, all_results)
            /\ all_results' = FinaliseStage3(failed_names', all_results)
            /\ pc' = "merge"
       ELSE /\ pc' = "KeyError"
            /\ UNCHANGED <<failed_names, all_results>>
    /\ UNCHANGED <<unique_names, i, calls, omits, df, df_merged, fnVars>>

\* Lines 193-224: nothing without results or without rows; otherwise the
\* fill-in and the merge of the records onto the rows.
Merge ==
    /\ pc = "merge"
    /\ IF DOMAIN all_results = {} \/ df = <<>>
       THEN UNCHANGED <<all_results, df_merged>>
       ELSE /\ all_results' = FillInAll(all_results, unique_names)
            /\ df_merged' = merge(df, results_df(all_results'))
    /\ pc' = "done"
    /\ UNCHANGED <<unique_names, failed_names, i, calls, omits, df, fnVars>>

Next ==
    \/ Stage1Batch
    \/ Stage1Complete
    \/ Stage2
    \/ Stage3Query
    \/ Stage3Finalise
    \/ Merge

Spec == Init /\ [][Next]_vars

\* The same run against a service that may leave submitted names out of
\* its answer.
InitOmit ==
    /\ InitCascade
    /\ omits = TRUE
    /\ FnIdle

SpecOmit == InitOmit /\ [][Next]_vars

\* The same run over an input column with repeated, empty and missing
\* values: lines 99-101 derive the distinct names from the rows.
InitRows ==
    /\ df \in RowLists
    /\ unique_names = ExtractUniqueNames(df)
    /\ df_merged = <<>>
    /\ all_results = <<>>
    /\ failed_names = <<>>
    /\ i = 0
    /\ calls = <<>>
    /\ pc = IF unique_names # <<>> THEN "stage1" ELSE "merge"
    /\ omits = FALSE
    /\ FnIdle

SpecRows == InitRows /\ [][Next]_vars

-----------------------------------------------------------------------------
(* The normalizers applied to arbitrary strings.                           *)

InitFn ==
    /\ unique_names = <<>>
    /\ all_results = <<>>
    /\ failed_names = <<>>
    /\ i = 0
    /\ calls = <<>>
    /\ pc = "done"
    /\ omits = FALSE
    /\ df = <<>>
    /\ df_merged = <<>>
    /\ fn_in \in FnInputs
    /\ fn_out = <<>>
    /\ fn_pc = "start"

\* clean_scientific_name applied to the input.
Clean ==
    /\ fn_pc = "start"
    /\ fn_out' = <<clean_scientific_name(fn_in)>>
    /\ fn_pc' = "cleaned"
    /\ UNCHANGED <<fn_in, cascadeVars>>

\* clean_scientific_name applied to its own result.
CleanAgain ==
    /\ fn_pc = "cleaned"
    /\ fn_out' = Append(fn_out, clean_scientific_name(fn_out[Len(fn_out)]))
    /\ fn_pc' = "cleaned_twice"
    /\ UNCHANGED <<fn_in, cascadeVars>>

\* extract_genus applied to the input.
Genus ==
    /\ fn_pc = "start"
    /\ fn_out' = <<extract_genus(fn_in)>>
    /\ fn_pc' = "genus"
    /\ UNCHANGED <<fn_in, cascadeVars>>

NextFn ==
    \/ Clean
    \/ CleanAgain
    \/ Genus

SpecFn == InitFn /\ [][NextFn]_vars

-----------------------------------------------------------------------------
(* Properties.                                                             *)

CallsOfStage(stage) == SelectSeq(calls, LAMBDA c : c.stage = stage)

FailedCall(c) == c.response.kind = "None"

\* The cascade is over: the script is at the merge section or past it.
CascadeCompleted == pc \in {"merge", "done"}

\* C1: when the cascade has completed over a non-empty list of distinct
\* names, the result map has a record for each of them and for nothing
\* else (a map holds one record per key), whatever the service answered.
C1_OneRecordPerName ==
    (CascadeCompleted /\ unique_names # <<>>) =>
        DOMAIN all_results = Range(unique_names)

\* A completed run of three names in which a request failed and a name is
\* left without a taxon id.
C1_Witness ==
    /\ pc = "done"
    /\ Len(unique_names) = 3
    /\ \E k \in 1..Len(calls) : FailedCall(calls[k])
    /\ DOMAIN all_results = Range(unique_names)
    /\ \E n \in DOMAIN all_results : all_results[n].OTTID = None

\* C2: a record that holds a taxon id is still in the map, with every field
\* unchanged, after any step of stage 1, 2, 3 and of the final fill-in.
C2_Monotonic ==
    [][\A n \in DOMAIN all_results :
          all_results[n].OTTID # None =>
             /\ n \in DOMAIN all_results'
             /\ all_results'[n] = all_results[n]]_vars

\* A finished run that went through the three stages and holds a record
\* matched at stage 1 and a record matched at stage 2.
C2_Witness ==
    /\ pc = "done"
    /\ CallsOfStage(2) # <<>>
    /\ CallsOfStage(3) # <<>>
    /\ \E n \in DOMAIN all_results :
          all_results[n].MatchLevel = "Species - Original" /\ all_results[n].OTTID # None
    /\ \E n \in DOMAIN all_results :
          all_results[n].MatchLevel = "Species - Cleaned" /\ all_results[n].OTTID # None

\* C3: a failed request never aborts the run.
C3_FailureNotFatal == pc # "KeyError"

\* C4: while stage 1 runs, every name of a batch whose request failed has
\* the placeholder record a zero-candidate answer would have given it.
C4_FailedBatchAsZeroCandidates ==
    pc = "stage1" =>
        \A k \in 1..Len(calls) :
            FailedCall(calls[k]) =>
                \A n \in Range(calls[k].names) :
                    /\ n \in DOMAIN all_results
                    /\ all_results[n] = EmptyRecord(n, "No Match Initial")

\* C5: at the end of a run whose genus request failed, every name that has a
\* genus and got no candidate at stage 1 and stage 2 is at
\* No Match Final - Genus Failed.
C5_GenusQueryError ==
    (pc = "done" /\ \E k \in 1..Len(calls) : calls[k].stage = 3 /\ FailedCall(calls[k])) =>
        \A n \in Range(failed_names) :
            (Truthy(extract_genus(n)) /\ all_results[n].PrimaryMatchedName = None) =>
                all_results[n].MatchLevel = "No Match Final - Genus Failed"

Count(x, seq) == Cardinality({k \in 1..Len(seq) : seq[k] = x})

HasItem(c, query) ==
    /\ c.response.kind = "json"
    /\ \E k \in 1..Len(c.response.results) : c.response.results[k].name = query

ItemOf(c, query) ==
    c.response.results[CHOOSE k \in 1..Len(c.response.results) :
                          c.response.results[k].name = query]

\* The name was in the failure set computed after stage 1 (stated on a state
\* that follows stage 2: a record matched at stage 1 is never rewritten).
FailedStage1(n) ==
    ~(n \in DOMAIN all_results
      /\ all_results[n].MatchLevel = "Species - Original"
      /\ all_results[n].OTTID # None)

\* The name was in the failure set computed after stage 2 (stated on a state
\* that follows stage 3).
FailedStage2(n) ==
    ~(n \in DOMAIN all_results
      /\ all_results[n].MatchLevel \in {"Species - Original", "Species - Cleaned"}
      /\ all_results[n].OTTID # None)

\* C6: right after stage 2, for any two distinct names that failed stage 1
\* and have the same cleaned form, different from both: one request went
\* out at stage 2, it holds the cleaned form once, and if the answer has a
\* candidate for it, both names hold the Species - Cleaned record built from
\* that candidate.
C6_CleanedFanOut ==
    (pc \in {"stage3", "merge"} /\ calls # <<>> /\ calls[Len(calls)].stage = 2) =>
        LET c == calls[Len(calls)]
        IN  \A n1, n2 \in Range(unique_names) :
               (/\ n1 # n2
                /\ FailedStage1(n1) /\ FailedStage1(n2)
                /\ NeedsCleanedQuery(n1) /\ NeedsCleanedQuery(n2)
                /\ clean_scientific_name(n1) = clean_scientific_name(n2)) =>
                   LET cleaned == clean_scientific_name(n1)
                   IN  /\ Len(CallsOfStage(2)) = 1
                       /\ Count(cleaned, c.names) = 1
                       /\ (HasItem(c, cleaned) /\ ItemOf(c, cleaned).matches # <<>>) =>
                             \A n \in {n1, n2} :
                                all_results[n] =
                                   MatchRecord(ItemOf(c, cleaned).matches[1], cleaned,
                                               "Species - Cleaned")

\* The genera of the names that stage 3 starts from.
FailedGenera ==
    {extract_genus(n) : n \in {m \in Range(failed_names) : Truthy(extract_genus(m))}}

\* C7: right after the genus update of stage 3, one request went out (none
\* when no failed name has a genus), every genus of a failed name is in it
\* exactly once, and every failed name of that genus holds the outcome of
\* the one item answered for it: the Genus record built from an accepted
\* candidate, or No Match Final - Genus Failed when the item has no
\* candidate.
C7_GenusFanOut ==
    pc = "stage3_final" =>
        LET sc == CallsOfStage(3)
        IN  /\ Len(sc) = (IF FailedGenera = {} THEN 0 ELSE 1)
            /\ \A g \in FailedGenera :
                  /\ Count(g, sc[1].names) = 1
                  /\ HasItem(sc[1], g) =>
                        \A n \in {m \in Range(failed_names) : extract_genus(m) = g} :
                           LET item == ItemOf(sc[1], g)
                           IN  /\ (item.matches # <<>> /\ RankAccepted(item.matches[1].taxon)) =>
                                     all_results[n] = MatchRecord(item.matches[1], g, "Genus")
                               /\ item.matches = <<>> =>
                                     all_results[n].MatchLevel = "No Match Final - Genus Failed"

\* Two failed names of one genus hold the same Genus record, and a third
\* failed name of another genus is at No Match Final - Genus Failed.
C7_Witness ==
    /\ pc = "stage3_final"
    /\ \E n1, n2, n3 \in Range(failed_names) :
          /\ n1 # n2
          /\ extract_genus(n1) = extract_genus(n2)
          /\ Truthy(extract_genus(n1))
          /\ all_results[n1].MatchLevel = "Genus"
          /\ all_results[n1].OTTID # None
          /\ all_results[n2] = all_results[n1]
          /\ all_results[n3].MatchLevel = "No Match Final - Genus Failed"

\* C8: a record is at level Genus only with a rank of the accepted list; a
\* genus candidate of rank species leaves the failed names of that genus
\* without taxon id and not at Genus, and they end at No Match Final; a
\* genus candidate of rank family puts them at Genus.
C8_GenusRankFilter ==
    /\ \A n \in DOMAIN all_results :
          all_results[n].MatchLevel = "Genus" =>
             lower(all_results[n].Rank) \in GenusStageRanks
    /\ (pc \in {"stage3_final", "merge", "done"} /\ CallsOfStage(3) # <<>>) =>
          LET c == CallsOfStage(3)[1]
          IN  \A g \in Range(c.names) :
                 (HasItem(c, g) /\ ItemOf(c, g).matches # <<>>) =>
                    LET taxon == ItemOf(c, g).matches[1].taxon
                    IN  \A n \in {m \in Range(unique_names) :
                                    extract_genus(m) = g /\ FailedStage2(m)} :
                           /\ taxon.rank = "species" =>
                                 /\ all_results[n].OTTID = None
                                 /\ all_results[n].MatchLevel # "Genus"
                                 /\ pc # "stage3_final" =>
                                       all_results[n].MatchLevel = "No Match Final"
                           /\ lower(taxon.rank) = "family" =>
                                 /\ all_results[n].MatchLevel = "Genus"
                                 /\ all_results[n].Rank = taxon.rank

\* A finished run in which the genus request returned a species for one
\* genus, whose name ends at No Match Final, and a family for another, whose
\* name ends at Genus.
C8_Witness ==
    /\ pc = "done"
    /\ CallsOfStage(3) # <<>>
    /\ LET c == CallsOfStage(3)[1]
       IN  \E g1, g2 \in Range(c.names) :
              /\ HasItem(c, g1) /\ HasItem(c, g2)
              /\ ItemOf(c, g1).matches # <<>>
              /\ ItemOf(c, g2).matches # <<>>
              /\ ItemOf(c, g1).matches[1].taxon.rank = "species"
              /\ ItemOf(c, g2).matches[1].taxon.rank = "Family"
              /\ \E n1, n2 \in Range(unique_names) :
                    /\ extract_genus(n1) = g1
                    /\ extract_genus(n2) = g2
                    /\ all_results[n1].MatchLevel = "No Match Final"
                    /\ all_results[n2].MatchLevel = "Genus"

\* C9: cleaning the result of a cleaning returns it unchanged.
C9_CleanIdempotent ==
    fn_pc = "cleaned_twice" => fn_out[2] = fn_out[1]

\* C10: every request of stage 1, 2 and 3 carries at least one and at most
\* BATCH_SIZE names.
C10_BatchBound ==
    \A k \in 1..Len(calls) :
        /\ Len(calls[k].names) >= 1
        /\ Len(calls[k].names) <= BATCH_SIZE

\* A stage 1 request that was answered left the name out of its results.
OmittedAtStage1(n) ==
    \E k \in 1..Len(calls) :
        /\ calls[k].stage = 1
        /\ calls[k].response.kind = "json"
        /\ n \in Range(calls[k].names)
        /\ ~HasItem(calls[k], n)

\* C11: when every request was answered and an answer left a distinct name
\* out, the run still completes, and at its end that name has a record: the
\* Processing Error record unless a later stage matched the name.
C11_OmittedNameProcessingError ==
    ((\A k \in 1..Len(calls) : ~FailedCall(calls[k]))
       /\ \E n \in Range(unique_names) : OmittedAtStage1(n)) =>
        /\ pc # "KeyError"
        /\ pc = "done" =>
               \A n \in Range(unique_names) :
                   /\ n \in DOMAIN all_results
                   /\ (OmittedAtStage1(n) /\ all_results[n].OTTID = None) =>
                          all_results[n].MatchLevel = "Processing Error"

FinalLevels == MatchLevels \ {"No Match Initial"}

NoMatchLevels == {"No Match Final", "No Match Final - Genus Failed", "Processing Error"}

\* The merged frame has a row for the name that carries its record.
RowOf(n) ==
    \E k \in 1..Len(df_merged) :
        /\ df_merged[k].name = n
        /\ df_merged[k].annotated
        /\ df_merged[k].fields = all_results[n]

\* Every distinct name has a record at a final level, at a no-match level
\* if it has no matched name.
FinalRecords ==
    \A n \in Range(unique_names) :
        /\ n \in DOMAIN all_results
        /\ all_results[n].MatchLevel \in FinalLevels
        /\ all_results[n].PrimaryMatchedName = None =>
               all_results[n].MatchLevel \in NoMatchLevels

\* C12: in every run, once the cascade is over, every distinct input name
\* has a record whose match level is Species - Original, Species - Cleaned,
\* Genus, No Match Final, No Match Final - Genus Failed or Processing Error
\* (never No Match Initial), a name without a matched name is at one of the
\* three no-match levels, and when the run has written its output every
\* name has a row carrying its record.
C12_ClosedFinalLevels ==
    []((unique_names # <<>>) =>
          /\ CascadeCompleted => FinalRecords
          /\ pc = "done" => \A n \in Range(unique_names) : RowOf(n))

\* A finished run with output in which one name got no candidate at any
\* stage and another had its genus query answered without a candidate.
C12_Witness ==
    /\ pc = "done"
    /\ df_merged # <<>>
    /\ \E n1, n2 \in Range(unique_names) :
          /\ all_results[n1].PrimaryMatchedName = None
          /\ all_results[n1].MatchLevel = "No Match Final"
          /\ all_results[n2].PrimaryMatchedName = None
          /\ all_results[n2].MatchLevel = "No Match Final - Genus Failed"
          /\ RowOf(n1) /\ RowOf(n2)

\* The run has written the merged frame.
OutputProduced == pc = "done" /\ DOMAIN all_results # {} /\ df # <<>>

\* C13: the merged frame has one row per input row, in the input order; a
\* row whose name is a distinct input name carries the fields of that
\* name's record, and a row whose name is missing ('nan'), empty or the
\* text 'NaN' carries no annotation.
C13_LeftJoin ==
    OutputProduced =>
        /\ Len(df_merged) = Len(df)
        /\ \A k \in 1..Len(df) :
              /\ df_merged[k].name = df[k]
              /\ IF df[k] \in Range(unique_names)
                 THEN /\ df_merged[k].annotated
                      /\ df_merged[k].fields = all_results[df[k]]
                 ELSE /\ df[k] \in {<<>>, nan, <<"N", "a", "N">>}
                      /\ ~df_merged[k].annotated
                      /\ df_merged[k].fields = NaNRecord

\* An output in which two rows share a name and its record and a third row
\* has a missing name.
C13_Witness ==
    /\ OutputProduced
    /\ \E j, k, m \in 1..Len(df) :
          /\ j < k
          /\ df[j] = df[k]
          /\ df[j] \in Range(unique_names)
          /\ df_merged[j].annotated
          /\ df_merged[j].fields = df_merged[k].fields
          /\ df[m] = nan
          /\ ~df_merged[m].annotated

\* C14: over a column without a usable name (no row, or only missing,
\* empty and 'NaN' values) the list of distinct names is empty, no request
\* is ever sent and the result map stays empty.
C14_EmptyInputNoCalls ==
    (\A k \in 1..Len(df) : df[k] \in {<<>>, nan, <<"N", "a", "N">>}) =>
        /\ unique_names = <<>>
        /\ calls = <<>>
        /\ DOMAIN all_results = {}
        /\ df_merged = <<>>

\* A finished run over rows that hold a missing value and the text 'NaN'.
C14_Witness ==
    /\ pc = "done"
    /\ unique_names = <<>>
    /\ calls = <<>>
    /\ \E j, k \in 1..Len(df) : df[j] = nan /\ df[k] = <<"N", "a", "N">>

\* The whitespace-delimited tokens of a string, in order.
RECURSIVE Tokens(_, _)
Tokens(s, cur) ==
    IF s = <<>> THEN (IF cur = <<>> THEN <<>> ELSE <<cur>>)
    ELSE IF Head(s) \in Whitespace
         THEN (IF cur = <<>> THEN <<>> ELSE <<cur>>) \o Tokens(Tail(s), <<>>)
         ELSE Tokens(Tail(s), Append(cur, Head(s)))

\* C15: extract_genus returns None for a string of one token and the first
\* token for a string of two or more tokens, whatever spaces lead, trail or
\* separate them.
C15_GenusFirstToken ==
    fn_pc = "genus" =>
        LET tokens == Tokens(fn_in, <<>>)
        IN  /\ Len(tokens) = 1 => fn_out[1] = NoneStr
            /\ Len(tokens) >= 2 => fn_out[1] = tokens[1]

\* C16: a record is created by a step of stage 1, at Species - Original or
\* No Match Initial, and its match level changes only from No Match Initial:
\* to Species - Cleaned by the step of stage 2, or to Genus, No Match Final
\* or No Match Final - Genus Failed by a step of stage 3.
C16_LevelStateMachine ==
    [][\A n \in Range(unique_names) :
          /\ (n \notin DOMAIN all_results /\ n \in DOMAIN all_results') =>
                /\ pc = "stage1"
                /\ all_results'[n].MatchLevel \in {"Species - Original", "No Match Initial"}
          /\ (n \in DOMAIN all_results /\ n \in DOMAIN all_results'
                /\ all_results'[n].MatchLevel # all_results[n].MatchLevel) =>
                /\ all_results[n].MatchLevel = "No Match Initial"
                /\ \/ /\ pc = "stage2"
                      /\ all_results'[n].MatchLevel = "Species - Cleaned"
                   \/ /\ pc \in {"stage3", "stage3_final"}
                      /\ all_results'[n].MatchLevel \in
                            {"Genus", "No Match Final", "No Match Final - Genus Failed"}]_vars

\* A request of the stage carried the query and was answered with a
\* candidate for it.
SentAndMatched(stage, query) ==
    \E k \in 1..Len(calls) :
        /\ calls[k].stage = stage
        /\ query \in Range(calls[k].names)
        /\ HasItem(calls[k], query)
        /\ ItemOf(calls[k], query).matches # <<>>

\* The 'Match Query' of the record of the name is a string that was sent
\* and answered with a candidate, at the stage the match level names.
ProvenanceOf(n) ==
    LET r == all_results[n]
    IN  CASE r.MatchLevel = "Species - Original" ->
               r.MatchQuery = n /\ SentAndMatched(1, n)
          [] r.MatchLevel = "Species - Cleaned" ->
               /\ r.MatchQuery = clean_scientific_name(n)
               /\ r.MatchQuery # n
               /\ SentAndMatched(2, r.MatchQuery)
          [] r.MatchLevel = "Genus" ->
               /\ r.MatchQuery = extract_genus(n)
               /\ SentAndMatched(3, r.MatchQuery)
          [] OTHER ->
               \E stage \in 1..3 : SentAndMatched(stage, r.MatchQuery)

\* C17: at every moment of a run, in every record with a matched name,
\* 'Match Query' is a string that was sent to the service and answered with
\* a candidate: the input name for a record at Species - Original, the
\* cleaned form of the name, which differs from the name, at
\* Species - Cleaned, and the genus of the name at Genus.
C17_MatchQueryProvenance ==
    [](\A n \in DOMAIN all_results :
          all_results[n].PrimaryMatchedName # None => ProvenanceOf(n))

\* A finished run with a record matched at each of the three stages.
C17_Witness ==
    /\ pc = "done"
    /\ \E n1, n2, n3 \in DOMAIN all_results :
          /\ all_results[n1].MatchLevel = "Species - Original"
          /\ all_results[n1].MatchQuery = n1
          /\ all_results[n2].MatchLevel = "Species - Cleaned"
          /\ all_results[n2].MatchQuery = clean_scientific_name(n2)
          /\ all_results[n3].MatchLevel = "Genus"
          /\ all_results[n3].MatchQuery = extract_genus(n3)
          /\ \A n \in {n1, n2, n3} : all_results[n].PrimaryMatchedName # None

\* The record of the name, or its absence, is the same after the step.
RecordUnchanged(n) ==
    IF n \in DOMAIN all_results
    THEN n \in DOMAIN all_results' /\ all_results'[n] = all_results[n]
    ELSE n \notin DOMAIN all_results'

\* C18: the step of stage 2 sends only cleaned forms of names of the
\* failure set that are non-empty and differ from their name, and it leaves
\* unchanged the record of every name that holds a taxon id and of every
\* name whose cleaned form is the name itself.
C18_Stage2Frame ==
    [][pc = "stage2" =>
          /\ \A k \in 1..Len(calls') :
                calls'[k].stage = 2 =>
                   \A q \in Range(calls'[k].names) :
                      /\ q # <<>>
                      /\ \E n \in Range(failed_names) :
                            /\ n \notin DOMAIN all_results \/ all_results[n].OTTID = None
                            /\ q = clean_scientific_name(n)
                            /\ q # n
          /\ \A n \in Range(unique_names) :
                (\/ n \in DOMAIN all_results /\ all_results[n].OTTID # None
                 \/ clean_scientific_name(n) = n) => RecordUnchanged(n)]_vars

\* Stage 2 has sent its request and matched a name, next to a name that
\* holds a taxon id from stage 1 and a failed name that cleaning leaves
\* unchanged.
C18_Witness ==
    /\ pc = "stage3"
    /\ CallsOfStage(2) # <<>>
    /\ \E n1, n2, n3 \in DOMAIN all_results :
          /\ all_results[n1].MatchLevel = "Species - Original"
          /\ all_results[n1].OTTID # None
          /\ all_results[n2].OTTID = None
          /\ clean_scientific_name(n2) = n2
          /\ all_results[n3].MatchLevel = "Species - Cleaned"
          /\ all_results[n3].OTTID # None

\* The requests of stage 1 that carried the name.
Stage1Submissions(n) ==
    {k \in 1..Len(calls) : calls[k].stage = 1 /\ n \in Range(calls[k].names)}

\* ceil(n / BATCH_SIZE)
CeilBatches(n) == (n + BATCH_SIZE - 1) \div BATCH_SIZE

NoRetry ==
    /\ \A n \in Range(unique_names) :
          /\ Cardinality(Stage1Submissions(n)) <= 1
          /\ \A k \in Stage1Submissions(n) : Count(n, calls[k].names) = 1
          /\ pc # "stage1" => Cardinality(Stage1Submissions(n)) = 1
    /\ Len(CallsOfStage(2)) <= 1
    /\ Len(CallsOfStage(3)) <= 1
    /\ \A j, k \in 1..Len(calls) :
          (j < k /\ FailedCall(calls[j])) =>
              ~(calls[k].stage = calls[j].stage /\ calls[k].names = calls[j].names)
    /\ Len(calls) <= CeilBatches(Len(unique_names)) + 2

\* The steps the script has left at most: the names stage 1 has not yet
\* submitted, then one step for each later section.
StepsLeft ==
    CASE pc = "stage1"       -> 5 + (IF i < Len(unique_names) THEN Len(unique_names) - i ELSE 0)
      [] pc = "stage2"       -> 4
      [] pc = "stage3"       -> 3
      [] pc = "stage3_final" -> 2
      [] pc = "merge"        -> 1
      [] OTHER               -> 0

\* C19: throughout a run every distinct name is in at most one request of
\* stage 1, and in exactly one once stage 1 is over; stage 2 and stage 3
\* send at most one request each; no failed request is sent again; the run
\* sends at most ceil(n / BATCH_SIZE) + 2 requests for n names; and every
\* step brings the script closer to its end, so no run goes on for ever.
C19_NoRetryTerminates ==
    /\ []NoRetry
    /\ [][StepsLeft' < StepsLeft]_vars

\* A finished run over more names than a batch holds, whose first request
\* failed and that sent the most requests a run may send.
C19_Witness ==
    /\ pc = "done"
    /\ Len(unique_names) > BATCH_SIZE
    /\ FailedCall(calls[1])
    /\ Len(calls) = CeilBatches(Len(unique_names)) + 2

\* C20: once the cascade is over, a record holds a taxon id exactly when
\* its match level is Species - Original, Species - Cleaned or Genus, and a
\* record at No Match Final or No Match Final - Genus Failed has no matched
\* name, no taxon id and no rank.
C20_IdIffMatchedLevel ==
    CascadeCompleted =>
        \A n \in DOMAIN all_results :
            LET r == all_results[n]
            IN  /\ r.OTTID # None <=>
                      r.MatchLevel \in {"Species - Original", "Species - Cleaned", "Genus"}
                /\ r.MatchLevel \in {"No Match Final", "No Match Final - Genus Failed"} =>
                      /\ r.PrimaryMatchedName = None
                      /\ r.OTTID = None
                      /\ r.Rank = None

====
